---- MODULE Spec2Model ----
(***************************************************************************)
(* Blender-File-Finder, src-tauri/src/lib.rs: the scan registry            *)
(* (start_scan / poll_scan), the background scan worker and the parts of   *)
(* the .blend decoder and of the tree builder the worker's state depends   *)
(* on.  Every lock scope and every atomic operation of the source is one   *)
(* step; thread-local computation is folded into the step that follows it. *)
(***************************************************************************)
EXTENDS Integers, Sequences, FiniteSets, TLC

\* ------------------------------------------------------------------------
\* Bounds of the model
\* ------------------------------------------------------------------------
\* scans started (ids allocated) in a run of Spec, where scans are polled
MaxScans == 1
\* scans started (ids allocated) in a run of ConcSpec, where they are not
MaxConcScans == 2
\* threads of the frontend that call start_scan
MaxCallers == 2
\* threads of the frontend that call poll_scan
MaxPollers == 1

\* insert_file calls on one builder in a run of TreeSpec
MaxInserts == 3

\* scans started, threads polling, and items per walk, in a run of LockSpec
MaxLockScans == 2
MaxLockPollers == 2
MaxWalk == 1

Callers == 1..MaxCallers
Pollers == 1..MaxPollers
\* ids a poller may ask for: every id that can be issued and one that cannot
PollIds == 1..(MaxScans + 1)
JobIds == 1..MaxConcScans

\* ------------------------------------------------------------------------
\* Program constants
\* ------------------------------------------------------------------------
\* static NEXT_SCAN_ID: AtomicU64 = AtomicU64::new(1)
FirstScanId == 1
\* data_size < 1024 * 1024 * 10
ThumbLimit == 10485760
\* i32 range
I32Max == 2147483647

\* Option<T>: None is the empty sequence, Some(x) the sequence of x alone
None == <<>>
Some(x) == <<x>>

\* ------------------------------------------------------------------------
\* Bytes and names.  A name is a sequence of byte values.
\* ------------------------------------------------------------------------
Dot == 46

\* str::to_lowercase on the ASCII range
ToLowerByte(b) == IF b \in 65..90 THEN b + 32 ELSE b
ToLower(s) == [i \in 1..Len(s) |-> ToLowerByte(s[i])]

\* "blend"
BlendExt == <<98, 108, 101, 110, 100>>

\* Path::extension: the part of the file name after its last '.', None when
\* there is no '.', or when the only '.' is the first byte
LastDot(name) ==
  LET ds == {i \in 1..Len(name) : name[i] = Dot}
  IN  IF ds = {} THEN 0 ELSE CHOOSE i \in ds : \A k \in ds : k <= i
Extension(name) ==
  IF LastDot(name) <= 1 THEN <<>> ELSE SubSeq(name, LastDot(name) + 1, Len(name))

\* the worker's filter: extension().to_lowercase() != "blend"
IsBlendName(name) == ToLower(Extension(name)) = BlendExt

\* byte-wise lexicographic order of String (the key order of BTreeMap)
RECURSIVE LexLess(_, _)
LexLess(a, b) ==
  IF b = <<>> THEN FALSE
  ELSE IF a = <<>> THEN TRUE
  ELSE IF a[1] # b[1] THEN a[1] < b[1]
  ELSE LexLess(Tail(a), Tail(b))

\* ------------------------------------------------------------------------
\* The file system the scans run over: for every root path the entries
\* WalkDir yields, in order.  rel is the entry's path below the root.
\* ------------------------------------------------------------------------
NoTest == <<>>

DirEntry(rel) ==
  [kind |-> "ok", rel |-> rel, is_file |-> FALSE, statOk |-> TRUE, test |-> NoTest]
FileEntry(rel, statOk, test) ==
  [kind |-> "ok", rel |-> rel, is_file |-> TRUE, statOk |-> statOk, test |-> test]
\* an Err item of the walk (permission denied, broken link, ...)
ErrEntry ==
  [kind |-> "err", rel |-> <<>>, is_file |-> FALSE, statOk |-> FALSE, test |-> NoTest]

\* "a.BLEND", "b.blend", "n.txt", "sub", "c.blend"
N_aBLEND == <<97, 46, 66, 76, 69, 78, 68>>
N_bblend == <<98, 46, 98, 108, 101, 110, 100>>
N_ntxt == <<110, 46, 116, 120, 116>>
N_sub == <<115, 117, 98>>

N_cblend == <<99, 46, 98, 108, 101, 110, 100>>

RootPaths == {"missing", "empty", "proj", "deep"}

Exists(root) == root # "missing"

Walk(root) ==
  CASE root = "empty" -> << DirEntry(<<>>) >>
    [] root = "proj" ->
         << DirEntry(<<>>),
            FileEntry(<<N_aBLEND>>, TRUE, <<2, 2>>),
            ErrEntry,
            FileEntry(<<N_ntxt>>, TRUE, NoTest) >>
    [] root = "deep" ->
         << DirEntry(<<>>),
            DirEntry(<<N_sub>>),
            FileEntry(<<N_sub, N_cblend>>, FALSE, NoTest),
            FileEntry(<<N_sub, N_bblend>>, TRUE, <<65536, 65536>>) >>
    [] OTHER -> << >>

\* ------------------------------------------------------------------------
\* parse_blocks, TEST branch: the arithmetic on width and height (i32).
\* Products are computed on 16-bit limbs, so that no intermediate value
\* leaves the 32-bit range.
\* ------------------------------------------------------------------------
Abs(a) == IF a < 0 THEN 0 - a ELSE a

\* p * q > m, for p, q, m >= 0
ProdGreater(p, q, m) == p # 0 /\ q > m \div p

\* p * q = 2^31, for 0 <= p, q <= I32Max
ProdIsTwoTo31(p, q) ==
  /\ p >= 2
  /\ p <= 1073741824
  /\ 1073741824 % p = 0
  /\ q = (1073741824 \div p) * 2

\* a * b is outside the i32 range (what overflow-checks traps on)
MulOverflowsI32(a, b) ==
  IF (a < 0) = (b < 0) \/ a = 0 \/ b = 0
  THEN ProdGreater(Abs(a), Abs(b), I32Max)
  ELSE ProdGreater(Abs(a), Abs(b), I32Max) /\ ~ProdIsTwoTo31(Abs(a), Abs(b))

\* the 32-bit product of two 16-bit limbs, as <<high limb, low limb>>
Mul16(x, y) ==
  LET X == (x \div 256) * y
      Y == (x % 256) * y
      t == (X % 256) * 256 + (Y % 65536)
  IN  << ((X \div 256) + (Y \div 65536) + (t \div 65536)) % 65536, t % 65536 >>

\* i32 wrapping_mul: a * b modulo 2^32, read as a signed value
WrapMulI32(a, b) ==
  LET al == a % 65536
      ah == (a \div 65536) % 65536
      bl == b % 65536
      bh == (b \div 65536) % 65536
      low == Mul16(al, bl)
      hi == (low[1] + Mul16(ah, bl)[2] + Mul16(al, bh)[2]) % 65536
  IN  IF hi >= 32768 THEN (hi - 65536) * 65536 + low[2] ELSE hi * 65536 + low[2]

\* width * height * 4 as the wrapping build computes it (line 251)
DataSizeI32(width, height) == WrapMulI32(WrapMulI32(width, height), 4)

\* line 251 or line 262 traps when the build checks arithmetic overflow:
\* width * height, or that times 4, leaves i32; or the product is in -8..-1,
\* so that (product as usize) + 8 leaves u64
TestBlockPanics(width, height) ==
  \/ MulOverflowsI32(width, height)
  \/ MulOverflowsI32(WrapMulI32(width, height), 4)
  \/ DataSizeI32(width, height) \in (0 - 8)..(0 - 1)

\* line 252: data_size > 0 && data_size < 10 MiB, data_size being the
\* product cast to usize (a negative product is then >= 2^63)
ThumbAccepted(width, height) ==
  DataSizeI32(width, height) > 0 /\ DataSizeI32(width, height) < ThumbLimit

\* parse_blend_header on a file with a valid header whose first block is the
\* TEST block `test` (NoTest: no such block).  The fields the scan result
\* carries: thumbnail (its length in bytes, before encoding), width, height.
NoBlendInfo == [thumbnail |-> None, thumb_width |-> None, thumb_height |-> None]
parse_blend_header(test) ==
  IF test # NoTest /\ ThumbAccepted(test[1], test[2])
  THEN [thumbnail |-> Some(DataSizeI32(test[1], test[2])),
        thumb_width |-> Some(test[1]), thumb_height |-> Some(test[2])]
  ELSE NoBlendInfo

\* whether parse_blend_header unwinds instead of returning
DecodePanics(test, checks) ==
  checks /\ test # NoTest /\ TestBlockPanics(test[1], test[2])

\* ------------------------------------------------------------------------
\* Tree builder: DirNode, insert_file, build_tree_nodes
\* ------------------------------------------------------------------------
\* DirNode::default(): no sub-directories, no files
DirNodeDefault == [dirs |-> [k \in {} |-> 0], files |-> <<>>]

\* insert_file putting the file before those its directory already holds
RECURSIVE insert_file_Front(_, _, _)
insert_file_Front(node, rel_parts, file) ==
  IF rel_parts = <<>>
  THEN [node EXCEPT !.files = <<file>> \o @]
  ELSE LET part == Head(rel_parts)
           child == IF part \in DOMAIN node.dirs THEN node.dirs[part]
                    ELSE DirNodeDefault
           grown == insert_file_Front(child, Tail(rel_parts), file)
       IN  [node EXCEPT !.dirs =
              [k \in (DOMAIN node.dirs) \cup {part} |->
                 IF k = part THEN grown ELSE node.dirs[k]]]

\* lines 297-314
RECURSIVE insert_file(_, _, _)
insert_file(node, rel_parts, file) ==
  IF rel_parts = <<>>
  THEN [node EXCEPT !.files = Append(@, file)]
  ELSE LET part == Head(rel_parts)
           child == IF part \in DOMAIN node.dirs THEN node.dirs[part]
                    ELSE DirNodeDefault
           grown == insert_file(child, Tail(rel_parts), file)
       IN  [node EXCEPT !.dirs =
              [k \in (DOMAIN node.dirs) \cup {part} |->
                 IF k = part THEN grown ELSE node.dirs[k]]]

\* the keys of a BTreeMap in iteration order
RECURSIVE SortedKeys(_)
SortedKeys(S) ==
  IF S = {} THEN <<>>
  ELSE LET m == CHOOSE x \in S : \A y \in S \ {x} : LexLess(x, y)
       IN  <<m>> \o SortedKeys(S \ {m})

FileNode(file) ==
  [node_type |-> "file", name |-> file.name, path |-> file.path,
   meta |-> Some(file.meta), children |-> None]

RECURSIVE build_tree_nodes(_, _, _)
build_tree_nodes(dir, name, path) ==
  LET keys == SortedKeys(DOMAIN dir.dirs)
      subdirs == [i \in 1..Len(keys) |->
                    build_tree_nodes(dir.dirs[keys[i]], keys[i],
                                     [path EXCEPT !.rel = Append(@, keys[i])])]
      filenodes == [i \in 1..Len(dir.files) |-> FileNode(dir.files[i])]
  IN  [node_type |-> "dir", name |-> name, path |-> path, meta |-> None,
       children |-> Some(subdirs \o filenodes)]

\* ------------------------------------------------------------------------
\* State
\* ------------------------------------------------------------------------
VARIABLES
  overflowChecks,  \* the build traps on arithmetic overflow (dev profile)
  nextScanId,      \* NEXT_SCAN_ID
  scans,           \* SCANS: scan id -> ScanState
  caller,          \* the threads running start_scan
  worker,          \* the scan threads, by scan id
  poller,          \* the threads running poll_scan
  allocated,       \* history: the ids fetch_add handed out, in order
  returned,        \* history: the ids start_scan returned, in order
  hist,            \* history: per job, what the polls that ended returned
  treeBuilder,     \* a DirNode under insert_file and build_tree_nodes alone
  decoder,         \* a parse_blend_header call on one file
  locks            \* the mutexes and the threads' places around them

\* the registry, its threads and their histories
scanVars == <<overflowChecks, nextScanId, scans, caller, worker, poller,
              allocated, returned, hist>>
\* the units that are also run on their own
unitVars == <<treeBuilder, decoder, locks>>

vars == <<scanVars, unitVars>>

\* ScanState::new()
ScanStateNew ==
  [scanned_entries |-> 0, found_blends |-> 0, done |-> FALSE,
   status |-> "scanning", current_path |-> None, error |-> None,
   result |-> None]

\* pc "ret": the call is returning ret, "ok" for Ok(scan_id), else the message
\* of the Err
CallerIdle == [pc |-> "idle", root |-> "", scan_id |-> 0, ret |-> "none"]

\* per job: the largest counters polls have returned, and the first snapshot
\* returned with status "done"
NoHist == [scanned_entries |-> 0, found_blends |-> 0, done |-> None]

\* the ScanPoll a poll_scan call is filling
ScanPollNew(scan_id) ==
  [scan_id |-> scan_id, status |-> "", scanned_entries |-> 0,
   found_blends |-> 0, current_path |-> None, error |-> None, result |-> None]

\* ret as for callers; snap is the ScanPoll of the call; cls and floor are
\* history: what was known of the id, and hist of the job, when the call began
PollerIdle ==
  [pc |-> "idle", ret |-> "none", snap |-> ScanPollNew(0), cls |-> "",
   floor |-> NoHist]

\* a builder before the first insert_file: no call made, no tree built
TreeBuilderNew == [builder |-> DirNodeDefault, calls |-> <<>>, tree |-> None]

\* a BlendInfo of None fields with the error e
BlendInfoError(e) ==
  [version |-> None, raw |-> None, pointer_size |-> None, endianness |-> None,
   thumbnail |-> None, thumb_width |-> None, thumb_height |-> None,
   render_engine |-> None, error |-> Some(e)]

\* A call of parse_blend_header.  pc is its place; pos the stream position;
\* is_little, header_len, searched_blocks the locals of parse_blocks; id,
\* size the code and the declared length of the block at hand; result the
\* Result of parse_blocks.  History: payload is the position after the block
\* header at hand; consumed the bytes its branch has read; width, height
\* the sizes the last TEST block gave, and thumb_of those of the TEST block
\* the thumbnail was read from; engines the engines the scene blocks named,
\* in order; failed whether a read or a seek of the block scan failed;
\* header the BlendInfo as it was when the block scan began.
DecoderNew ==
  [pc |-> "idle", file |-> "", pos |-> 0, info |-> BlendInfoError(""),
   is_little |-> TRUE, header_len |-> 0, searched_blocks |-> 0,
   id |-> <<>>, size |-> 0, result |-> "Ok",
   payload |-> 0, consumed |-> 0, last |-> "", width |-> 0, height |-> 0,
   thumb_of |-> None, engines |-> <<>>, failed |-> FALSE,
   header |-> BlendInfoError("")]

\* the mutexes and their threads before the first call: no mutex held, no
\* job in SCANS, no scan thread; left is the number of items a walk has
\* still to yield
PollerIdleAtLocks == [pc |-> "idle", id |-> 0, status |-> ""]
LocksNew ==
  [holder |-> [m \in {<<"SCANS", 0>>}
                       \cup ({"status", "current_path", "error", "result"}
                               \X (1..MaxLockScans)) |-> <<>>],
   next_id |-> FirstScanId,
   jobs |-> {},
   status |-> [j \in 1..MaxLockScans |-> "scanning"],
   caller |-> [pc |-> "idle", id |-> 0],
   worker |-> [j \in 1..MaxLockScans |->
                 [pc |-> "none", item |-> "", left |-> MaxWalk]],
   poller |-> [p \in 1..MaxLockPollers |-> PollerIdleAtLocks]]

Init ==
  /\ overflowChecks \in BOOLEAN
  /\ nextScanId = FirstScanId
  /\ scans = [k \in {} |-> 0]
  /\ caller = [c \in Callers |-> CallerIdle]
  /\ worker = [k \in {} |-> 0]
  /\ poller = [p \in Pollers |-> PollerIdle]
  /\ allocated = <<>>
  /\ returned = <<>>
  /\ hist = [j \in JobIds |-> NoHist]
  /\ treeBuilder = TreeBuilderNew
  /\ decoder = DecoderNew
  /\ locks = LocksNew

Range(f) == {f[i] : i \in DOMAIN f}

\* ------------------------------------------------------------------------
\* start_scan
\* ------------------------------------------------------------------------
\* start_scan taking its id before it checks the folder
S_Start_AllocFirst(c, root) ==
  /\ caller[c].pc = "idle"
  /\ caller' = [caller EXCEPT ![c] =
       IF Exists(root)
       THEN [pc |-> "alloc", root |-> root, scan_id |-> 0, ret |-> "none"]
       ELSE [pc |-> "ret", root |-> root, scan_id |-> 0,
             ret |-> "Folder does not exist"]]
  /\ nextScanId' = IF Exists(root) THEN nextScanId ELSE nextScanId + 1
  /\ UNCHANGED <<unitVars, overflowChecks, scans, worker, poller, allocated, returned,
                 hist>>

\* lines 363-367: the call, and the check that the folder exists
S_Start(c, root) ==
  /\ caller[c].pc = "idle"
  /\ caller' = [caller EXCEPT ![c] =
       IF Exists(root)
       THEN [pc |-> "alloc", root |-> root, scan_id |-> 0, ret |-> "none"]
       ELSE [pc |-> "ret", root |-> root, scan_id |-> 0,
             ret |-> "Folder does not exist"]]
  /\ UNCHANGED <<unitVars, overflowChecks, nextScanId, scans, worker, poller,
                 allocated, returned, hist>>

\* start_scan taking the size of the registry plus one as its id
S_Alloc_FromLen(c) ==
  /\ caller[c].pc = "alloc"
  /\ caller' = [caller EXCEPT ![c].pc = "insert",
                              ![c].scan_id = Cardinality(DOMAIN scans) + 1]
  /\ nextScanId' = nextScanId + 1
  /\ allocated' = Append(allocated, Cardinality(DOMAIN scans) + 1)
  /\ UNCHANGED <<unitVars, overflowChecks, scans, worker, poller, returned, hist>>

\* lines 369-370: NEXT_SCAN_ID.fetch_add(1), ScanState::new()
S_Alloc(c) ==
  /\ caller[c].pc = "alloc"
  /\ caller' = [caller EXCEPT ![c].pc = "insert", ![c].scan_id = nextScanId]
  /\ nextScanId' = nextScanId + 1
  /\ allocated' = Append(allocated, nextScanId)
  /\ UNCHANGED <<unitVars, overflowChecks, scans, worker, poller, returned, hist>>

\* start_scan that never stores the state in the registry
S_Insert_Forgotten(c) ==
  /\ caller[c].pc = "insert"
  /\ caller' = [caller EXCEPT ![c].pc = "spawn"]
  /\ UNCHANGED <<unitVars, overflowChecks, nextScanId, scans, worker, poller, allocated,
                 returned, hist>>

\* lines 373-376: map.insert(scan_id, state) under the registry lock
S_Insert(c) ==
  /\ caller[c].pc = "insert"
  /\ scans' = [k \in (DOMAIN scans) \cup {caller[c].scan_id} |->
                 IF k = caller[c].scan_id THEN ScanStateNew ELSE scans[k]]
  /\ caller' = [caller EXCEPT ![c].pc = "spawn"]
  /\ UNCHANGED <<unitVars, overflowChecks, nextScanId, worker, poller, allocated,
                 returned, hist>>

WorkerNew(root) ==
  [pc |-> "status", root |-> root, idx |-> 1, files |-> <<>>,
   builder |-> DirNodeDefault]

\* lines 379 and 495: thread::spawn, then Ok(scan_id)
S_Spawn(c) ==
  /\ caller[c].pc = "spawn"
  /\ worker' = [k \in (DOMAIN worker) \cup {caller[c].scan_id} |->
                  IF k = caller[c].scan_id THEN WorkerNew(caller[c].root)
                  ELSE worker[k]]
  /\ caller' = [caller EXCEPT ![c].pc = "ret", ![c].ret = "ok"]
  /\ UNCHANGED <<unitVars, overflowChecks, nextScanId, scans, poller, allocated,
                 returned, hist>>

\* the frontend receives the Result of start_scan
S_Return(c) ==
  /\ caller[c].pc = "ret"
  /\ caller' = [caller EXCEPT ![c] = CallerIdle]
  /\ returned' = IF caller[c].ret = "ok" THEN Append(returned, caller[c].scan_id)
                 ELSE returned
  /\ UNCHANGED <<unitVars, overflowChecks, nextScanId, scans, worker, poller, allocated,
                 hist>>

\* ------------------------------------------------------------------------
\* The scan thread (the closure of thread::spawn)
\* ------------------------------------------------------------------------
Entry(j) == Walk(worker[j].root)[worker[j].idx]

EntryPath(j) == [root |-> worker[j].root, rel |-> Entry(j).rel]

Front(s) == SubSeq(s, 1, Len(s) - 1)
Last(s) == s[Len(s)]

\* format!("(walk error) {}", err)
WalkErrorPath == [root |-> "(walk error)", rel |-> <<>>]

\* lines 380-382: *status = "scanning"
W_SetScanning(j) ==
  /\ j \in DOMAIN worker
  /\ worker[j].pc = "status"
  /\ scans' = [scans EXCEPT ![j].status = "scanning"]
  /\ worker' = [worker EXCEPT ![j].pc = "walk"]
  /\ UNCHANGED <<unitVars, overflowChecks, nextScanId, caller, poller, allocated,
                 returned, hist>>

\* a walk that does not count the Ok items
W_Walk_Uncounted(j) ==
  /\ j \in DOMAIN worker
  /\ worker[j].pc = "walk"
  /\ worker[j].idx <= Len(Walk(worker[j].root))
  /\ IF Entry(j).kind = "ok"
     THEN /\ scans' = scans
          /\ worker' = [worker EXCEPT ![j].pc = "curpath"]
     ELSE /\ scans' = [scans EXCEPT ![j].current_path = Some(WalkErrorPath)]
          /\ worker' = [worker EXCEPT ![j].idx = @ + 1]
  /\ UNCHANGED <<unitVars, overflowChecks, nextScanId, caller, poller, allocated,
                 returned, hist>>

\* lines 393-396 and 473-478: the next item of the walk.  Ok: count it.
\* Err: put the diagnostic in current_path and go on.
W_Walk(j) ==
  /\ j \in DOMAIN worker
  /\ worker[j].pc = "walk"
  /\ worker[j].idx <= Len(Walk(worker[j].root))
  /\ IF Entry(j).kind = "ok"
     THEN /\ scans' = [scans EXCEPT ![j].scanned_entries = @ + 1]
          /\ worker' = [worker EXCEPT ![j].pc = "curpath"]
     ELSE /\ scans' = [scans EXCEPT ![j].current_path = Some(WalkErrorPath)]
          /\ worker' = [worker EXCEPT ![j].idx = @ + 1]
  /\ UNCHANGED <<unitVars, overflowChecks, nextScanId, caller, poller, allocated,
                 returned, hist>>

\* lines 399-401: *cp = Some(e.path())
W_CurrentPath(j) ==
  /\ j \in DOMAIN worker
  /\ worker[j].pc = "curpath"
  /\ scans' = [scans EXCEPT ![j].current_path = Some(EntryPath(j))]
  /\ worker' = [worker EXCEPT ![j].pc = "filter"]
  /\ UNCHANGED <<unitVars, overflowChecks, nextScanId, caller, poller, allocated,
                 returned, hist>>

\* a filter that takes a skipped item out of scanned_entries again
W_Filter_Uncount(j) ==
  /\ j \in DOMAIN worker
  /\ worker[j].pc = "filter"
  /\ IF ~Entry(j).is_file \/ ~IsBlendName(Last(Entry(j).rel))
     THEN /\ worker' = [worker EXCEPT ![j].pc = "walk", ![j].idx = @ + 1]
          /\ scans' = [scans EXCEPT ![j].scanned_entries = @ - 1]
     ELSE /\ scans' = [scans EXCEPT ![j].found_blends = @ + 1]
          /\ worker' = [worker EXCEPT ![j].pc = "process"]
  /\ UNCHANGED <<unitVars, overflowChecks, nextScanId, caller, poller, allocated,
                 returned, hist>>

\* lines 403-417: skip what is no regular file or has another extension,
\* count the rest
W_Filter(j) ==
  /\ j \in DOMAIN worker
  /\ worker[j].pc = "filter"
  /\ IF ~Entry(j).is_file \/ ~IsBlendName(Last(Entry(j).rel))
     THEN /\ worker' = [worker EXCEPT ![j].pc = "walk", ![j].idx = @ + 1]
          /\ scans' = scans
     ELSE /\ scans' = [scans EXCEPT ![j].found_blends = @ + 1]
          /\ worker' = [worker EXCEPT ![j].pc = "process"]
  /\ UNCHANGED <<unitVars, overflowChecks, nextScanId, caller, poller, allocated,
                 returned, hist>>

\* lines 442-461: the FileMeta and the FlatFile of a matched file
FileMetaOf(j, blend) ==
  [folder |-> [root |-> worker[j].root, rel |-> Front(Entry(j).rel)],
   blender |-> blend]
FlatFileOf(j, blend) ==
  [name |-> Last(Entry(j).rel), path |-> EntryPath(j),
   folder |-> [root |-> worker[j].root, rel |-> Front(Entry(j).rel)],
   thumbnail |-> blend.thumbnail]

\* a scan thread that reports a failed stat as the error of the job
W_Process_StatError(j) ==
  /\ j \in DOMAIN worker
  /\ worker[j].pc = "process"
  /\ IF ~Entry(j).statOk
     THEN /\ worker' = [worker EXCEPT ![j].pc = "walk", ![j].idx = @ + 1]
          /\ scans' = [scans EXCEPT ![j].status = "error",
                                    ![j].error = Some("metadata")]
     ELSE /\ scans' = scans
          /\ IF DecodePanics(Entry(j).test, overflowChecks)
             THEN worker' = [worker EXCEPT ![j].pc = "panicked"]
             ELSE LET blend == parse_blend_header(Entry(j).test)
                      file == [name |-> Last(Entry(j).rel),
                               path |-> EntryPath(j),
                               meta |-> FileMetaOf(j, blend)]
                  IN  worker' = [worker EXCEPT
                        ![j].pc = "walk",
                        ![j].idx = @ + 1,
                        ![j].files = Append(@, FlatFileOf(j, blend)),
                        ![j].builder = insert_file(@, Front(Entry(j).rel),
                                                   file)]
  /\ UNCHANGED <<unitVars, overflowChecks, nextScanId, caller, poller,
                 allocated, returned, hist>>

\* lines 419-471: stat the file (a failure skips it), decode it (the decoder
\* may unwind, which ends the thread), push the FlatFile, insert in the tree
W_Process(j) ==
  /\ j \in DOMAIN worker
  /\ worker[j].pc = "process"
  /\ IF ~Entry(j).statOk
     THEN worker' = [worker EXCEPT ![j].pc = "walk", ![j].idx = @ + 1]
     ELSE IF DecodePanics(Entry(j).test, overflowChecks)
     THEN worker' = [worker EXCEPT ![j].pc = "panicked"]
     ELSE LET blend == parse_blend_header(Entry(j).test)
              file == [name |-> Last(Entry(j).rel), path |-> EntryPath(j),
                       meta |-> FileMetaOf(j, blend)]
          IN  worker' = [worker EXCEPT
                ![j].pc = "walk",
                ![j].idx = @ + 1,
                ![j].files = Append(@, FlatFileOf(j, blend)),
                ![j].builder = insert_file(@, Front(Entry(j).rel), file)]
  /\ UNCHANGED <<unitVars, overflowChecks, nextScanId, scans, caller, poller, allocated,
                 returned, hist>>

\* a scan thread that sets the status where it should store the result
W_Result_StatusFirst(j) ==
  /\ j \in DOMAIN worker
  /\ worker[j].pc = "walk"
  /\ worker[j].idx > Len(Walk(worker[j].root))
  /\ scans' = [scans EXCEPT ![j].status = "done"]
  /\ worker' = [worker EXCEPT ![j].pc = "done_status"]
  /\ UNCHANGED <<unitVars, overflowChecks, nextScanId, caller, poller, allocated,
                 returned, hist>>

\* lines 483-488: the walk is over; build the tree, *r = Some(result)
W_Result(j) ==
  /\ j \in DOMAIN worker
  /\ worker[j].pc = "walk"
  /\ worker[j].idx > Len(Walk(worker[j].root))
  /\ scans' = [scans EXCEPT ![j].result =
       Some([tree |-> build_tree_nodes(worker[j].builder, worker[j].root,
                                       [root |-> worker[j].root, rel |-> <<>>]),
             files |-> worker[j].files])]
  /\ worker' = [worker EXCEPT ![j].pc = "done_status"]
  /\ UNCHANGED <<unitVars, overflowChecks, nextScanId, caller, poller, allocated,
                 returned, hist>>

\* lines 489-491: *st = "done"
W_DoneStatus(j) ==
  /\ j \in DOMAIN worker
  /\ worker[j].pc = "done_status"
  /\ scans' = [scans EXCEPT ![j].status = "done"]
  /\ worker' = [worker EXCEPT ![j].pc = "done_flag"]
  /\ UNCHANGED <<unitVars, overflowChecks, nextScanId, caller, poller, allocated,
                 returned, hist>>

\* line 492: state.done.store(true)
W_DoneFlag(j) ==
  /\ j \in DOMAIN worker
  /\ worker[j].pc = "done_flag"
  /\ scans' = [scans EXCEPT ![j].done = TRUE]
  /\ worker' = [worker EXCEPT ![j].pc = "exit"]
  /\ UNCHANGED <<unitVars, overflowChecks, nextScanId, caller, poller, allocated,
                 returned, hist>>

WorkerStep(j) ==
  \/ W_SetScanning(j)
  \/ W_Walk(j)
  \/ W_CurrentPath(j)
  \/ W_Filter(j)
  \/ W_Process(j)
  \/ W_Result(j)
  \/ W_DoneStatus(j)
  \/ W_DoneFlag(j)

\* ------------------------------------------------------------------------
\* poll_scan
\* ------------------------------------------------------------------------
\* history: where the start_scan call of an id stands when a poll of the id
\* begins.  "never": fetch_add has not handed the id out; "pending": it has,
\* and the call has not reached its map.insert yet; "issued": the call is
\* past its map.insert (it has returned the id, or is about to)
IdClass(id) ==
  IF id \notin Range(allocated) THEN "never"
  ELSE IF \E c \in Callers : caller[c].pc = "insert" /\ caller[c].scan_id = id
  THEN "pending"
  ELSE "issued"

\* lines 499-507: the call, and the lookup under the registry lock
P_Lookup(p, id) ==
  /\ poller[p].pc = "idle"
  /\ poller' = [poller EXCEPT ![p] =
       [pc |-> IF id \in DOMAIN scans THEN "status" ELSE "ret",
        ret |-> IF id \in DOMAIN scans THEN "none" ELSE "Scan id not found",
        snap |-> ScanPollNew(id),
        cls |-> IdClass(id),
        floor |-> IF id \in JobIds THEN hist[id] ELSE NoHist]]
  /\ UNCHANGED <<unitVars, overflowChecks, nextScanId, scans, caller, worker, allocated,
                 returned, hist>>

PollJob(p) == scans[poller[p].snap.scan_id]

\* line 509: status.lock().clone()
P_Status(p) ==
  /\ poller[p].pc = "status"
  /\ poller' = [poller EXCEPT ![p].pc = "current_path",
                              ![p].snap.status = PollJob(p).status]
  /\ UNCHANGED <<unitVars, overflowChecks, nextScanId, scans, caller, worker, allocated,
                 returned, hist>>

\* line 510: current_path.lock().clone()
P_CurrentPath(p) ==
  /\ poller[p].pc = "current_path"
  /\ poller' = [poller EXCEPT ![p].pc = "error",
                              ![p].snap.current_path = PollJob(p).current_path]
  /\ UNCHANGED <<unitVars, overflowChecks, nextScanId, scans, caller, worker, allocated,
                 returned, hist>>

\* line 511: error.lock().clone()
P_Error(p) ==
  /\ poller[p].pc = "error"
  /\ poller' = [poller EXCEPT ![p].pc = "result",
                              ![p].snap.error = PollJob(p).error]
  /\ UNCHANGED <<unitVars, overflowChecks, nextScanId, scans, caller, worker, allocated,
                 returned, hist>>

\* a poll that copies the result whatever status it read
P_Result_Always(p) ==
  /\ poller[p].pc = "result"
  /\ poller' = [poller EXCEPT ![p].pc = "scanned",
                              ![p].snap.result = PollJob(p).result]
  /\ UNCHANGED <<unitVars, overflowChecks, nextScanId, scans, caller, worker, allocated,
                 returned, hist>>

\* a poll that takes the result out of the job (Option::take for clone)
P_Result_Take(p) ==
  /\ poller[p].pc = "result"
  /\ poller' = [poller EXCEPT
       ![p].pc = "scanned",
       ![p].snap.result = IF poller[p].snap.status = "done"
                          THEN PollJob(p).result ELSE None]
  /\ scans' = IF poller[p].snap.status = "done"
              THEN [scans EXCEPT ![poller[p].snap.scan_id].result = None]
              ELSE scans
  /\ UNCHANGED <<unitVars, overflowChecks, nextScanId, caller, worker, allocated,
                 returned, hist>>

\* lines 513-517: result.lock().clone() if the status read was "done"
P_Result(p) ==
  /\ poller[p].pc = "result"
  /\ poller' = [poller EXCEPT
       ![p].pc = "scanned",
       ![p].snap.result = IF poller[p].snap.status = "done"
                          THEN PollJob(p).result ELSE None]
  /\ UNCHANGED <<unitVars, overflowChecks, nextScanId, scans, caller, worker, allocated,
                 returned, hist>>

\* line 522: scanned_entries.load()
P_LoadScanned(p) ==
  /\ poller[p].pc = "scanned"
  /\ poller' = [poller EXCEPT
       ![p].pc = "found",
       ![p].snap.scanned_entries = PollJob(p).scanned_entries]
  /\ UNCHANGED <<unitVars, overflowChecks, nextScanId, scans, caller, worker, allocated,
                 returned, hist>>

Max(a, b) == IF a >= b THEN a ELSE b

\* history: hist of a job after a poll returned snap
HistAfter(h, snap) ==
  [scanned_entries |-> Max(h.scanned_entries, snap.scanned_entries),
   found_blends |-> Max(h.found_blends, snap.found_blends),
   done |-> IF h.done = None /\ snap.status = "done" THEN Some(snap)
            ELSE h.done]

\* lines 519-527: found_blends.load(), and Ok(ScanPoll)
P_LoadFound(p) ==
  /\ poller[p].pc = "found"
  /\ poller' = [poller EXCEPT
       ![p].pc = "ret", ![p].ret = "ok",
       ![p].snap.found_blends = PollJob(p).found_blends]
  /\ UNCHANGED <<unitVars, overflowChecks, nextScanId, scans, caller, worker, allocated,
                 returned, hist>>

\* the frontend receives the Result of poll_scan
P_Return(p) ==
  /\ poller[p].pc = "ret"
  /\ poller' = [poller EXCEPT ![p] = PollerIdle]
  /\ hist' = IF poller[p].ret = "ok"
             THEN [hist EXCEPT ![poller[p].snap.scan_id] =
                     HistAfter(@, poller[p].snap)]
             ELSE hist
  /\ UNCHANGED <<unitVars, overflowChecks, nextScanId, scans, caller, worker, allocated,
                 returned>>

PollerStep(p) ==
  \/ \E id \in PollIds : P_Lookup(p, id)
  \/ P_Status(p)
  \/ P_CurrentPath(p)
  \/ P_Error(p)
  \/ P_Result(p)
  \/ P_LoadScanned(p)
  \/ P_LoadFound(p)
  \/ P_Return(p)

\* start_scan calls that have passed the existence check and have not taken
\* their id yet
Pending == Cardinality({c \in Callers : caller[c].pc = "alloc"})

\* a frontend thread; it starts at most `limit` scans that pass the check
CallerStep(c, limit) ==
  \/ \E root \in RootPaths :
       /\ Exists(root) => nextScanId + Pending <= limit
       /\ S_Start(c, root)
  \/ S_Alloc(c)
  \/ S_Insert(c)
  \/ S_Spawn(c)
  \/ S_Return(c)

\* Scans, polled at any time by any poller, for any id.
Next ==
  \/ \E c \in Callers : CallerStep(c, MaxScans)
  \/ \E j \in JobIds : WorkerStep(j)
  \/ \E p \in Pollers : PollerStep(p)

Spec == Init /\ [][Next]_vars

\* More scans, so that start_scan calls and scan threads run concurrently
\* with each other; no polls (a poll writes nothing the other threads read).
ConcNext ==
  \/ \E c \in Callers : CallerStep(c, MaxConcScans)
  \/ \E j \in JobIds : WorkerStep(j)

ConcSpec == Init /\ [][ConcNext]_vars

\* ------------------------------------------------------------------------
\* The tree builder on its own: any insert_file calls, then build_tree_nodes
\* ------------------------------------------------------------------------
\* "B", "a", "ab", "z"
N_B == <<66>>
N_a == <<97>>
N_ab == <<97, 98>>
N_z == <<122>>

\* the rel_parts and the file names the calls are made with
InsertParts ==
  {<<>>, <<N_a>>, <<N_B>>, <<N_ab>>, <<N_a, N_B>>, <<N_a, N_a>>}
InsertNames == {N_z, N_a}

TreeRootPath == [root |-> "root", rel |-> <<>>]

\* the (name, full_path, meta) of a file `name` in the directory `parts`
TreeFile(parts, name) ==
  [name |-> name, path |-> [root |-> "root", rel |-> Append(parts, name)],
   meta |-> [folder |-> [root |-> "root", rel |-> parts],
             blender |-> NoBlendInfo]]

\* lines 297-314: one insert_file call
T_Insert(parts, name) ==
  /\ treeBuilder.tree = None
  /\ Len(treeBuilder.calls) < MaxInserts
  /\ treeBuilder' = [treeBuilder EXCEPT
       !.builder = insert_file(@, parts, TreeFile(parts, name)),
       !.calls = Append(@, [parts |-> parts, name |-> name])]
  /\ UNCHANGED <<scanVars, decoder, locks>>

\* lines 316-343: build_tree_nodes on the builder, once
T_Build ==
  /\ treeBuilder.tree = None
  /\ treeBuilder' = [treeBuilder EXCEPT !.tree =
       Some(build_tree_nodes(treeBuilder.builder, "root", TreeRootPath))]
  /\ UNCHANGED <<scanVars, decoder, locks>>

TreeNext ==
  \/ \E parts \in InsertParts, name \in InsertNames : T_Insert(parts, name)
  \/ T_Build

TreeSpec == Init /\ [][TreeNext]_vars

\* ------------------------------------------------------------------------
\* The decoder on its own: parse_blend_header and parse_blocks on the bytes
\* of one file.  A file is a sequence of byte values; the stream position is
\* a byte offset.  Block sizes in the files are below 2^31.
\* ------------------------------------------------------------------------
\* searched_blocks > 3000
BlockCap == 3000

\* "BLENDER", and the flag bytes '-', '_', 'v', 'V'
Magic == <<66, 76, 69, 78, 68, 69, 82>>
Ch_Minus == 45
Ch_Underscore == 95
Ch_v == 118
Ch_V == 86

\* the block codes "TEST", "SC", "DNA1", "ENDB"
Code_TEST == <<84, 69, 83, 84>>
Code_SC == <<83, 67>>
Code_DNA1 == <<68, 78, 65, 49>>
Code_ENDB == <<69, 78, 68, 66>>

\* "CYCLES", "EEVEE", "WORKBENCH"
Str_CYCLES == <<67, 89, 67, 76, 69, 83>>
Str_EEVEE == <<69, 69, 86, 69, 69>>
Str_WORKBENCH == <<87, 79, 82, 75, 66, 69, 78, 67, 72>>

\* str::starts_with and str::contains, on bytes
StartsWith(s, pat) == Len(s) >= Len(pat) /\ SubSeq(s, 1, Len(pat)) = pat
Contains(s, pat) ==
  \E i \in 1..(Len(s) - Len(pat) + 1) : SubSeq(s, i, i + Len(pat) - 1) = pat

\* str::to_uppercase on the ASCII range
ToUpperByte(b) == IF b \in 97..122 THEN b - 32 ELSE b
ToUpper(s) == [i \in 1..Len(s) |-> ToUpperByte(s[i])]

Reverse(s) == [i \in 1..Len(s) |-> s[Len(s) + 1 - i]]

\* u32::from_le_bytes / from_be_bytes
U32From(b, is_little) ==
  LET l == IF is_little THEN b ELSE Reverse(b)
  IN  l[1] + 256 * l[2] + 65536 * l[3] + 16777216 * l[4]

\* i32::from_le_bytes / from_be_bytes
I32From(b, is_little) ==
  LET l == IF is_little THEN b ELSE Reverse(b)
      top == IF l[4] >= 128 THEN l[4] - 256 ELSE l[4]
  IN  l[1] + 256 * l[2] + 65536 * l[3] + 16777216 * top

\* BASE64_STANDARD.encode: the alphabet, and the padded encoding
B64Char(v) ==
  IF v < 26 THEN 65 + v
  ELSE IF v < 52 THEN 97 + (v - 26)
  ELSE IF v < 62 THEN 48 + (v - 52)
  ELSE IF v = 62 THEN 43 ELSE 47
RECURSIVE Base64(_)
Base64(b) ==
  IF b = <<>> THEN <<>>
  ELSE IF Len(b) = 1
  THEN << B64Char(b[1] \div 4), B64Char((b[1] % 4) * 16), 61, 61 >>
  ELSE IF Len(b) = 2
  THEN << B64Char(b[1] \div 4), B64Char((b[1] % 4) * 16 + b[2] \div 16),
          B64Char((b[2] % 16) * 4), 61 >>
  ELSE << B64Char(b[1] \div 4), B64Char((b[1] % 4) * 16 + b[2] \div 16),
          B64Char((b[2] % 16) * 4 + b[3] \div 64), B64Char(b[3] % 64) >>
       \o Base64(SubSeq(b, 4, Len(b)))

\* ---- the files ----
\* the bytes of an u32 or i32, as the file's byte order has them
Int32Bytes(n, is_little) ==
  LET l == << n % 256, (n \div 256) % 256, (n \div 65536) % 256,
              (n \div 16777216) % 256 >>
  IN  IF is_little THEN l ELSE Reverse(l)

Zeros(n) == [i \in 1..n |-> 0]

\* the 12 bytes of a header; raw is the 3 bytes of the version
Header12(ptr, endian, raw) == Magic \o <<ptr, endian>> \o raw

\* a block header: code (padded to 4 bytes), size, old address, SDNA index,
\* count
BlockHeader(code, size, ptr_bytes, is_little) ==
  code \o Zeros(4 - Len(code)) \o Int32Bytes(size, is_little)
       \o Zeros(ptr_bytes) \o Zeros(4) \o Zeros(4)

\* a TEST block: width, height, then `pixels`; `size` is the declared length
TestBlock(size, width, height, pixels, ptr_bytes, is_little) ==
  BlockHeader(Code_TEST, size, ptr_bytes, is_little)
    \o Int32Bytes(width, is_little) \o Int32Bytes(height, is_little) \o pixels

\* a block of code `code` with payload `data`, declared with its length
DataBlock(code, data, ptr_bytes, is_little) ==
  BlockHeader(code, Len(data), ptr_bytes, is_little) \o data

\* "280", "401"
Raw280 == <<50, 56, 48>>
Raw401 == <<52, 48, 49>>
\* "DATA", "REND"
Code_DATA == <<68, 65, 84, 65>>
Code_REND == <<82, 69, 78, 68>>
\* "eevee", "Workbench", "..cycles.."
Txt_eevee == <<101, 101, 118, 101, 101>>
Txt_Workbench == <<87, 111, 114, 107, 98, 101, 110, 99, 104>>
Txt_cycles == <<46, 46, 99, 121, 99, 108, 101, 115, 46, 46>>
\* 16 bytes of pixels
Pixels16 == <<255, 0, 0, 255, 0, 255, 0, 255, 0, 0, 255, 255, 9, 9, 9, 77>>

\* A file: whether File::open succeeds, and its bytes: `head`, then `unit`
\* `rep` times, then `tail`, less the `cut` last bytes
BlendFile(open, head, rep, unit, tail, cut) ==
  [open |-> open, head |-> head, rep |-> rep, unit |-> unit, tail |-> tail,
   len |-> Len(head) + rep * Len(unit) + Len(tail) - cut]

Head32LE == Header12(Ch_Underscore, Ch_v, Raw280)
Endb32LE == BlockHeader(Code_ENDB, 0, 4, TRUE)

BlendFiles ==
  {"denied", "short", "text", "thumb", "engines", "odd", "bigthumb",
   "cutthumb", "cutscene", "cuttest", "squared", "wrapped", "minus",
   "scenes3001", "data3001", "tests3001"}

FileOf(f) ==
  CASE f = "denied" -> BlendFile(FALSE, <<>>, 0, <<>>, <<>>, 0)
    [] f = "short" -> BlendFile(TRUE, SubSeq(Magic, 1, 5), 0, <<>>, <<>>, 0)
    [] f = "text" ->
         BlendFile(TRUE, <<66, 76, 69, 78, 68, 32, 105, 116, 32, 119, 101,
                           108, 108>>, 0, <<>>, <<>>, 0)
    \* a 2 x 2 thumbnail, a skipped block, a scene, ENDB
    [] f = "thumb" ->
         BlendFile(TRUE, Head32LE, 0, <<>>,
                   TestBlock(24, 2, 2, Pixels16, 4, TRUE)
                     \o DataBlock(Code_REND, <<1, 2, 3, 4>>, 4, TRUE)
                     \o DataBlock(Code_SC, Txt_cycles, 4, TRUE)
                     \o Endb32LE, 0)
    \* 64-bit, big-endian: a scene naming Eevee, a scene naming Workbench,
    \* a scene naming neither, DNA1
    [] f = "engines" ->
         BlendFile(TRUE, Header12(Ch_Minus, Ch_V, Raw401), 0, <<>>,
                   DataBlock(Code_SC, Txt_eevee, 8, FALSE)
                     \o DataBlock(Code_SC, Txt_Workbench, 8, FALSE)
                     \o DataBlock(Code_SC, <<120, 121>>, 8, FALSE)
                     \o BlockHeader(Code_DNA1, 0, 8, FALSE), 0)
    \* flag bytes that are none of '-', '_', 'v', 'V'
    [] f = "odd" ->
         BlendFile(TRUE, Header12(63, 63, Raw280), 0, <<>>,
                   TestBlock(40, 2, 2, Pixels16 \o Zeros(16), 8, TRUE)
                     \o BlockHeader(Code_ENDB, 0, 8, TRUE), 0)
    \* a TEST block of 2048 x 2048 that holds 16 bytes after the sizes
    [] f = "bigthumb" ->
         BlendFile(TRUE, Head32LE, 0, <<>>,
                   TestBlock(24, 2048, 2048, Zeros(16), 4, TRUE)
                     \o DataBlock(Code_SC, Txt_cycles, 4, TRUE)
                     \o Endb32LE, 0)
    \* a 2 x 2 thumbnail; the file ends 12 bytes into the pixels
    [] f = "cutthumb" ->
         BlendFile(TRUE, Head32LE, 0, <<>>,
                   TestBlock(24, 2, 2, Pixels16, 4, TRUE), 4)
    \* a scene; the file ends 3 bytes before the end of its payload
    [] f = "cutscene" ->
         BlendFile(TRUE, Head32LE, 0, <<>>,
                   DataBlock(Code_SC, Txt_cycles, 4, TRUE), 3)
    \* a TEST block; the file ends 4 bytes after the block header
    [] f = "cuttest" ->
         BlendFile(TRUE, Head32LE, 0, <<>>,
                   TestBlock(24, 2, 2, Pixels16, 4, TRUE), 20)
    \* width = height = 65536: the product leaves i32 and wraps to 0
    [] f = "squared" ->
         BlendFile(TRUE, Head32LE, 0, <<>>,
                   TestBlock(8, 65536, 65536, <<>>, 4, TRUE) \o Endb32LE, 0)
    \* width = 2^30 + 1, height = 1: the product times 4 wraps to 4
    [] f = "wrapped" ->
         BlendFile(TRUE, Head32LE, 0, <<>>,
                   TestBlock(12, 1073741825, 1, <<7, 7, 7, 7>>, 4, TRUE)
                     \o Endb32LE, 0)
    \* width = -1, height = 1: the product times 4 is -4
    [] f = "minus" ->
         BlendFile(TRUE, Head32LE, 0, <<>>,
                   TestBlock(24, 0 - 1, 1, Zeros(16), 4, TRUE)
                     \o Zeros(4) \o Endb32LE, 0)
    \* BlockCap empty scenes, then a scene naming Cycles
    [] f = "scenes3001" ->
         BlendFile(TRUE, Head32LE, BlockCap, DataBlock(Code_SC, <<>>, 4, TRUE),
                   DataBlock(Code_SC, Txt_cycles, 4, TRUE) \o Endb32LE, 0)
    \* BlockCap + 1 empty DATA blocks, then a scene naming Cycles
    [] f = "data3001" ->
         BlendFile(TRUE, Head32LE, BlockCap + 1,
                   DataBlock(Code_DATA, <<>>, 4, TRUE),
                   DataBlock(Code_SC, Txt_cycles, 4, TRUE) \o Endb32LE, 0)
    \* BlockCap TEST blocks of 0 x 0, then a 2 x 2 thumbnail
    [] f = "tests3001" ->
         BlendFile(TRUE, Head32LE, BlockCap,
                   TestBlock(8, 0, 0, <<>>, 4, TRUE),
                   TestBlock(24, 2, 2, Pixels16, 4, TRUE) \o Endb32LE, 0)

\* the byte of a file at offset off, 0 <= off < len
FileByte(file, off) ==
  IF off < Len(file.head) THEN file.head[off + 1]
  ELSE IF off < Len(file.head) + file.rep * Len(file.unit)
  THEN file.unit[((off - Len(file.head)) % Len(file.unit)) + 1]
  ELSE file.tail[off - Len(file.head) - file.rep * Len(file.unit) + 1]

\* Read::read_exact of n bytes at pos: it fails when the file ends before,
\* and has then consumed what was left
ReadOk(file, pos, n) == pos + n <= file.len
ReadBytes(file, pos, n) == [i \in 1..n |-> FileByte(file, pos + i - 1)]
PosAfterRead(file, pos, n) ==
  IF ReadOk(file, pos, n) THEN pos + n
  ELSE IF pos > file.len THEN pos ELSE file.len

\* ---- parse_blend_header, parse_blocks ----
\* lines 164-195: the fields read from the 12 bytes of a header (the version
\* bytes of the files are ASCII, one char each)
pointer_size(buf) ==
  IF buf[8] = Ch_Minus THEN Some(64)
  ELSE IF buf[8] = Ch_Underscore THEN Some(32) ELSE None
endianness(buf) ==
  IF buf[9] = Ch_v THEN Some("little")
  ELSE IF buf[9] = Ch_V THEN Some("big") ELSE Some("unknown")
BlendInfoOfHeader(buf) ==
  [version |-> Some(<<buf[10], Dot, buf[11], Dot, buf[12]>>),
   raw |-> Some(SubSeq(buf, 10, 12)),
   pointer_size |-> pointer_size(buf), endianness |-> endianness(buf),
   thumbnail |-> None, thumb_width |-> None, thumb_height |-> None,
   render_engine |-> None, error |-> None]

TheFile == FileOf(decoder.file)

\* lines 117-195: File::open, read_exact of the 12 bytes, the magic, the
\* fields of the header
H_Open(f) ==
  /\ decoder.pc = "idle"
  /\ LET file == FileOf(f)
         buf == ReadBytes(file, 0, 12)
     IN  decoder' =
           IF ~file.open
           THEN [decoder EXCEPT !.pc = "done", !.file = f,
                                !.info = BlendInfoError("open failed")]
           ELSE IF ~ReadOk(file, 0, 12)
           THEN [decoder EXCEPT !.pc = "done", !.file = f,
                                !.pos = PosAfterRead(file, 0, 12),
                                !.info = BlendInfoError("Unable to read header")]
           ELSE IF SubSeq(buf, 1, 7) # Magic
           THEN [decoder EXCEPT !.pc = "done", !.file = f, !.pos = 12,
                                !.info = BlendInfoError("Not a blend file")]
           ELSE [decoder EXCEPT
                   !.pc = "seek", !.file = f, !.pos = 12,
                   !.info = BlendInfoOfHeader(buf),
                   !.header = BlendInfoOfHeader(buf),
                   !.is_little = (endianness(buf) # Some("big")),
                   !.header_len =
                     4 + 4 + (IF pointer_size(buf) = Some(32) THEN 4 ELSE 8)
                       + 4 + 4]
  /\ UNCHANGED <<scanVars, treeBuilder, locks>>

\* line 217: file.seek(SeekFrom::Start(12))?
B_SeekStart(seek_ok) ==
  /\ decoder.pc = "seek"
  /\ decoder' =
       IF seek_ok THEN [decoder EXCEPT !.pc = "header", !.pos = 12]
       ELSE [decoder EXCEPT !.pc = "ret", !.result = "Err", !.failed = TRUE]
  /\ UNCHANGED <<scanVars, treeBuilder, locks>>

\* the branch of the loop a block header selects (lines 236, 267, 279, 281)
BranchOf(id, searched_blocks) ==
  IF StartsWith(id, Code_TEST) THEN "test"
  ELSE IF StartsWith(id, Code_SC) THEN "scene"
  ELSE IF StartsWith(id, Code_DNA1) \/ StartsWith(id, Code_ENDB)
          \/ searched_blocks > BlockCap
  THEN "break"
  ELSE "skip"

\* lines 223-234: read_exact of a block header (a failure leaves the loop),
\* searched_blocks += 1, the code and the declared length
B_ReadHeader ==
  /\ decoder.pc = "header"
  /\ LET buf == ReadBytes(TheFile, decoder.pos, decoder.header_len)
     IN  decoder' =
           IF ~ReadOk(TheFile, decoder.pos, decoder.header_len)
           THEN [decoder EXCEPT
                   !.pc = "ret", !.failed = TRUE,
                   !.pos = PosAfterRead(TheFile, decoder.pos,
                                        decoder.header_len)]
           ELSE [decoder EXCEPT
                   !.pc = BranchOf(SubSeq(buf, 1, 4),
                                   decoder.searched_blocks + 1),
                   !.searched_blocks = @ + 1,
                   !.id = SubSeq(buf, 1, 4),
                   !.size = U32From(SubSeq(buf, 5, 8), decoder.is_little),
                   !.pos = @ + decoder.header_len,
                   !.payload = decoder.pos + decoder.header_len,
                   !.consumed = 0]
  /\ UNCHANGED <<scanVars, treeBuilder, locks>>

\* line 262: read_so_far = 8 + data_size as u64, data_size being the i32
\* product cast to usize; "huge" stands for a value of 2^63 or more.  A
\* product in -8..-1 wraps to 8 + product when overflow is not checked.
ReadSoFarAbove(size, product) ==
  IF product >= 0 THEN size - 8 > product
  ELSE IF product >= 0 - 8 THEN size > 8 + product
  ELSE FALSE
\* size - read_so_far, when size > read_so_far
RestOfBlock(size, product) == (size - 8) - product

\* lines 236-266: the TEST branch
B_Test(seek_ok) ==
  /\ decoder.pc = "test"
  /\ LET p0 == decoder.pos
         head_ok == ReadOk(TheFile, p0, 8)
         thumb_header == ReadBytes(TheFile, p0, 8)
         width == I32From(SubSeq(thumb_header, 1, 4), decoder.is_little)
         height == I32From(SubSeq(thumb_header, 5, 8), decoder.is_little)
         product == DataSizeI32(width, height)
         accepted == ThumbAccepted(width, height)
         p1 == p0 + 8
         rgba_ok == accepted /\ ReadOk(TheFile, p1, product)
         p2 == IF accepted THEN PosAfterRead(TheFile, p1, product) ELSE p1
         seeks == ReadSoFarAbove(decoder.size, product)
     IN  decoder' =
           IF ~head_ok
           THEN [decoder EXCEPT
                   !.pc = "header", !.last = "test", !.failed = TRUE,
                   !.pos = PosAfterRead(TheFile, p0, 8),
                   !.consumed = PosAfterRead(TheFile, p0, 8) - p0]
           ELSE IF overflowChecks /\ TestBlockPanics(width, height)
           THEN [decoder EXCEPT !.pc = "panicked", !.width = width,
                                !.height = height]
           ELSE [decoder EXCEPT
                   !.pc = IF seeks /\ ~seek_ok THEN "ret" ELSE "header",
                   !.result = IF seeks /\ ~seek_ok THEN "Err" ELSE @,
                   !.failed = @ \/ (accepted /\ ~rgba_ok)
                                \/ (seeks /\ ~seek_ok),
                   !.last = "test",
                   !.width = width, !.height = height,
                   !.consumed = p2 - p0,
                   !.thumb_of = IF rgba_ok THEN Some(<<width, height>>)
                                ELSE @,
                   !.pos = IF seeks /\ seek_ok
                           THEN p2 + RestOfBlock(decoder.size, product)
                           ELSE p2,
                   !.info = IF rgba_ok
                            THEN [@ EXCEPT
                                    !.thumbnail =
                                      Some(Base64(ReadBytes(TheFile, p1,
                                                            product))),
                                    !.thumb_width = Some(width),
                                    !.thumb_height = Some(height)]
                            ELSE @]
  /\ UNCHANGED <<scanVars, treeBuilder, locks>>

\* lines 271-277: the engine a scene's text names, None when it names none
EngineOf(sc_str) ==
  IF Contains(sc_str, Str_CYCLES) THEN Some("Cycles")
  ELSE IF Contains(sc_str, Str_EEVEE) THEN Some("Eevee")
  ELSE IF Contains(sc_str, Str_WORKBENCH) THEN Some("Workbench")
  ELSE None

\* lines 267-278: the SC branch
B_Scene ==
  /\ decoder.pc = "scene"
  /\ LET ok == ReadOk(TheFile, decoder.pos, decoder.size)
         sc_str == ToUpper(ReadBytes(TheFile, decoder.pos, decoder.size))
     IN  decoder' =
           [decoder EXCEPT
              !.pc = "header", !.last = "scene",
              !.failed = @ \/ ~ok,
              !.consumed =
                PosAfterRead(TheFile, decoder.pos, decoder.size) - decoder.pos,
              !.pos = PosAfterRead(TheFile, decoder.pos, decoder.size),
              !.engines = IF ok /\ EngineOf(sc_str) # None
                          THEN Append(@, EngineOf(sc_str)[1]) ELSE @,
              !.info = IF ok /\ EngineOf(sc_str) # None
                       THEN [@ EXCEPT !.render_engine = EngineOf(sc_str)]
                       ELSE @]
  /\ UNCHANGED <<scanVars, treeBuilder, locks>>

\* lines 279-280: break on DNA1, on ENDB, or above the cap
B_Break ==
  /\ decoder.pc = "break"
  /\ decoder' = [decoder EXCEPT !.pc = "ret", !.last = "break"]
  /\ UNCHANGED <<scanVars, treeBuilder, locks>>

\* lines 281-283: file.seek(SeekFrom::Current(size))?
B_Skip(seek_ok) ==
  /\ decoder.pc = "skip"
  /\ decoder' =
       IF seek_ok
       THEN [decoder EXCEPT !.pc = "header", !.last = "skip",
                            !.pos = @ + decoder.size]
       ELSE [decoder EXCEPT !.pc = "ret", !.last = "skip",
                            !.result = "Err", !.failed = TRUE]
  /\ UNCHANGED <<scanVars, treeBuilder, locks>>

\* lines 197-202: parse_blocks has returned; its Err goes to info.error
H_Return ==
  /\ decoder.pc = "ret"
  /\ decoder' =
       [decoder EXCEPT
          !.pc = "done",
          !.info = IF decoder.result = "Err"
                   THEN [@ EXCEPT !.error =
                           Some("Header OK, but block scan failed")]
                   ELSE @]
  /\ UNCHANGED <<scanVars, treeBuilder, locks>>

DecNext ==
  \/ \E f \in BlendFiles : H_Open(f)
  \/ \E seek_ok \in BOOLEAN : B_SeekStart(seek_ok)
  \/ B_ReadHeader
  \/ \E seek_ok \in BOOLEAN : B_Test(seek_ok)
  \/ B_Scene
  \/ B_Break
  \/ \E seek_ok \in BOOLEAN : B_Skip(seek_ok)
  \/ H_Return

DecSpec == Init /\ [][DecNext]_vars

\* ------------------------------------------------------------------------
\* The mutexes on their own: start_scan, the scan thread and poll_scan as
\* the sequences of lock(), unlock and file-system calls they make.  Every
\* lock scope is two steps, the lock() (which waits while the mutex is
\* held) and the body with the drop of the guard; the atomics, which take
\* no mutex, are folded into the step before them.  A pc names what the
\* thread does next.
\* ------------------------------------------------------------------------
\* thread ids, and the holder of a mutex nobody holds
CallerThread == <<"caller", 0>>
WorkerThread(j) == <<"worker", j>>
PollerThread(p) == <<"poller", p>>
Free == <<>>

LockJobs == 1..MaxLockScans
LockPollers == 1..MaxLockPollers
\* the ids polled: those of the jobs, and one that is never issued
LockPollIds == 1..(MaxLockScans + 1)

\* SCANS, and the four Mutex fields of the ScanState of every job
ScansMutex == <<"SCANS", 0>>
Mutexes ==
  {ScansMutex}
    \cup {<<f, j>> : f \in {"status", "current_path", "error", "result"},
                     j \in LockJobs}

\* the record `l` with the mutex m unlocked
Unlocked(l, m) == [l EXCEPT !.holder[m] = Free]

\* a start_scan call begins
LC_Call ==
  /\ locks.caller.pc = "idle"
  /\ locks.next_id <= MaxLockScans
  /\ locks' = [locks EXCEPT !.caller.pc = "exists"]
  /\ UNCHANGED <<scanVars, treeBuilder, decoder>>

\* lines 365-370: root.exists(), which reads the file system; fetch_add
LC_Exists(exists) ==
  /\ locks.caller.pc = "exists"
  /\ locks' = IF exists
              THEN [locks EXCEPT !.caller.pc = "lock_map",
                                 !.caller.id = locks.next_id,
                                 !.next_id = @ + 1]
              ELSE [locks EXCEPT !.caller.pc = "idle"]
  /\ UNCHANGED <<scanVars, treeBuilder, decoder>>

\* line 374: scans_map().lock()
LC_LockMap ==
  /\ locks.caller.pc = "lock_map"
  /\ locks.holder[ScansMutex] = Free
  /\ locks' = [locks EXCEPT !.holder[ScansMutex] = CallerThread,
                            !.caller.pc = "insert"]
  /\ UNCHANGED <<scanVars, treeBuilder, decoder>>

\* lines 375-376: map.insert, and the end of the block drops the guard
LC_Insert ==
  /\ locks.caller.pc = "insert"
  /\ locks' = [Unlocked(locks, ScansMutex) EXCEPT
                 !.jobs = @ \cup {locks.caller.id},
                 !.caller.pc = "spawn"]
  /\ UNCHANGED <<scanVars, treeBuilder, decoder>>

\* lines 379 and 495: thread::spawn, Ok(scan_id)
LC_Spawn ==
  /\ locks.caller.pc = "spawn"
  /\ locks' = [locks EXCEPT !.worker[locks.caller.id].pc = "lock_status",
                            !.caller.pc = "idle"]
  /\ UNCHANGED <<scanVars, treeBuilder, decoder>>

LockCallerStep ==
  \/ LC_Call
  \/ \E exists \in BOOLEAN : LC_Exists(exists)
  \/ LC_LockMap
  \/ LC_Insert
  \/ LC_Spawn

\* a lock() of the scan thread of job j on its field f, at pc `at`
LW_Lock(j, at, f, to) ==
  /\ locks.worker[j].pc = at
  /\ locks.holder[<<f, j>>] = Free
  /\ locks' = [locks EXCEPT !.holder[<<f, j>>] = WorkerThread(j),
                            !.worker[j].pc = to]
  /\ UNCHANGED <<scanVars, treeBuilder, decoder>>

\* line 380: state.status.lock()
LW_LockStatus(j) == LW_Lock(j, "lock_status", "status", "set_status")

\* lines 381-382: *status = "scanning"; drop(status)
LW_SetStatus(j) ==
  /\ locks.worker[j].pc = "set_status"
  /\ locks' = [Unlocked(locks, <<"status", j>>) EXCEPT
                 !.status[j] = "scanning", !.worker[j].pc = "walk"]
  /\ UNCHANGED <<scanVars, treeBuilder, decoder>>

\* lines 393-396: the next item of WalkDir, which reads the file system:
\* Ok (counted), Err, or the end of the walk
LW_Walk(j, item) ==
  /\ locks.worker[j].pc = "walk"
  /\ IF item = "end" THEN locks.worker[j].left = 0
     ELSE locks.worker[j].left > 0
  /\ locks' = IF item = "end"
              THEN [locks EXCEPT !.worker[j].pc = "lock_result"]
              ELSE [locks EXCEPT !.worker[j].pc = "lock_path",
                                 !.worker[j].item = item,
                                 !.worker[j].left = @ - 1]
  /\ UNCHANGED <<scanVars, treeBuilder, decoder>>

\* lines 399 and 475: state.current_path.lock()
LW_LockPath(j) == LW_Lock(j, "lock_path", "current_path", "set_path")

\* lines 400-401 and 476-477: *cp = Some(..), and the end of the if let
\* drops the guard
LW_SetPath(j) ==
  /\ locks.worker[j].pc = "set_path"
  /\ locks' = [Unlocked(locks, <<"current_path", j>>) EXCEPT
                 !.worker[j].pc = IF locks.worker[j].item = "Ok"
                                  THEN "is_file" ELSE "walk"]
  /\ UNCHANGED <<scanVars, treeBuilder, decoder>>

\* lines 403-417: p.is_file(), which reads the file system; the extension;
\* found_blends.fetch_add
LW_IsFile(j, matches) ==
  /\ locks.worker[j].pc = "is_file"
  /\ locks' = [locks EXCEPT !.worker[j].pc = IF matches THEN "metadata"
                                             ELSE "walk"]
  /\ UNCHANGED <<scanVars, treeBuilder, decoder>>

\* lines 419-422: p.metadata(), which reads the file system
LW_Metadata(j, ok) ==
  /\ locks.worker[j].pc = "metadata"
  /\ locks' = [locks EXCEPT !.worker[j].pc = IF ok THEN "parse" ELSE "walk"]
  /\ UNCHANGED <<scanVars, treeBuilder, decoder>>

\* lines 433-471: parse_blend_header, which reads the file and may unwind;
\* files.push, insert_file
LW_Parse(j, panics) ==
  /\ locks.worker[j].pc = "parse"
  /\ locks' = [locks EXCEPT !.worker[j].pc = IF panics THEN "panicked"
                                             ELSE "walk"]
  /\ UNCHANGED <<scanVars, treeBuilder, decoder>>

\* line 486: state.result.lock()
LW_LockResult(j) == LW_Lock(j, "lock_result", "result", "set_result")

\* lines 487-488: *r = Some(result)
LW_SetResult(j) ==
  /\ locks.worker[j].pc = "set_result"
  /\ locks' = [Unlocked(locks, <<"result", j>>) EXCEPT
                 !.worker[j].pc = "lock_done"]
  /\ UNCHANGED <<scanVars, treeBuilder, decoder>>

\* line 489: state.status.lock()
LW_LockDone(j) == LW_Lock(j, "lock_done", "status", "set_done")

\* lines 490-492: *st = "done"; done.store(true)
LW_SetDone(j) ==
  /\ locks.worker[j].pc = "set_done"
  /\ locks' = [Unlocked(locks, <<"status", j>>) EXCEPT
                 !.status[j] = "done", !.worker[j].pc = "exit"]
  /\ UNCHANGED <<scanVars, treeBuilder, decoder>>

LockWorkerStep(j) ==
  \/ LW_LockStatus(j)
  \/ LW_SetStatus(j)
  \/ \E item \in {"Ok", "Err", "end"} : LW_Walk(j, item)
  \/ LW_LockPath(j)
  \/ LW_SetPath(j)
  \/ \E matches \in BOOLEAN : LW_IsFile(j, matches)
  \/ \E ok \in BOOLEAN : LW_Metadata(j, ok)
  \/ \E panics \in BOOLEAN : LW_Parse(j, panics)
  \/ LW_LockResult(j)
  \/ LW_SetResult(j)
  \/ LW_LockDone(j)
  \/ LW_SetDone(j)

\* a poll_scan call begins
LP_Call(p, id) ==
  /\ locks.poller[p].pc = "idle"
  /\ locks' = [locks EXCEPT !.poller[p] =
                 [pc |-> "lock_map", id |-> id, status |-> ""]]
  /\ UNCHANGED <<scanVars, treeBuilder, decoder>>

\* line 501: scans_map().lock()
LP_LockMap(p) ==
  /\ locks.poller[p].pc = "lock_map"
  /\ locks.holder[ScansMutex] = Free
  /\ locks' = [locks EXCEPT !.holder[ScansMutex] = PollerThread(p),
                            !.poller[p].pc = "lookup"]
  /\ UNCHANGED <<scanVars, treeBuilder, decoder>>

\* poll_scan with the guard of the map bound for the whole call
LP_Lookup_KeepMap(p) ==
  /\ locks.poller[p].pc = "lookup"
  /\ locks' = [locks EXCEPT
                 !.poller[p].pc = IF locks.poller[p].id \in locks.jobs
                                  THEN "lock_status" ELSE "ret"]
  /\ UNCHANGED <<scanVars, treeBuilder, decoder>>

\* lines 502-507: map.get(&scan_id).cloned(), and the end of the block
\* drops the guard; Err("Scan id not found") when the id is not in the map
LP_Lookup(p) ==
  /\ locks.poller[p].pc = "lookup"
  /\ locks' = [Unlocked(locks, ScansMutex) EXCEPT
                 !.poller[p].pc = IF locks.poller[p].id \in locks.jobs
                                  THEN "lock_status" ELSE "ret"]
  /\ UNCHANGED <<scanVars, treeBuilder, decoder>>

\* a lock() of the poll p on the field f of the job it polls, at pc `at`
LP_Lock(p, at, f, to) ==
  /\ locks.poller[p].pc = at
  /\ locks.holder[<<f, locks.poller[p].id>>] = Free
  /\ locks' = [locks EXCEPT
                 !.holder[<<f, locks.poller[p].id>>] = PollerThread(p),
                 !.poller[p].pc = to]
  /\ UNCHANGED <<scanVars, treeBuilder, decoder>>

\* the clone() under the guard of f, and the end of the statement drops it
LP_Get(p, at, f, to) ==
  /\ locks.poller[p].pc = at
  /\ locks' = [Unlocked(locks, <<f, locks.poller[p].id>>) EXCEPT
                 !.poller[p].pc = to]
  /\ UNCHANGED <<scanVars, treeBuilder, decoder>>

\* line 509: state.status.lock().unwrap().clone()
LP_LockStatus(p) == LP_Lock(p, "lock_status", "status", "get_status")
LP_GetStatus(p) ==
  /\ locks.poller[p].pc = "get_status"
  /\ locks' = [Unlocked(locks, <<"status", locks.poller[p].id>>) EXCEPT
                 !.poller[p].pc = "lock_path",
                 !.poller[p].status = locks.status[locks.poller[p].id]]
  /\ UNCHANGED <<scanVars, treeBuilder, decoder>>

\* line 510: state.current_path.lock().unwrap().clone()
LP_LockPath(p) == LP_Lock(p, "lock_path", "current_path", "get_path")
LP_GetPath(p) == LP_Get(p, "get_path", "current_path", "lock_error")

\* lines 511-513: state.error.lock().unwrap().clone(); status == "done"
LP_LockError(p) == LP_Lock(p, "lock_error", "error", "get_error")
LP_GetError(p) ==
  LP_Get(p, "get_error", "error",
         IF locks.poller[p].status = "done" THEN "lock_result" ELSE "ret")

\* line 514: state.result.lock().unwrap().clone()
LP_LockResult(p) == LP_Lock(p, "lock_result", "result", "get_result")
LP_GetResult(p) == LP_Get(p, "get_result", "result", "ret")

\* lines 519-527: the loads of the counters; the call returns
LP_Return(p) ==
  /\ locks.poller[p].pc = "ret"
  /\ locks' = [locks EXCEPT !.poller[p] = PollerIdleAtLocks]
  /\ UNCHANGED <<scanVars, treeBuilder, decoder>>

LockPollerStep(p) ==
  \/ \E id \in LockPollIds : LP_Call(p, id)
  \/ LP_LockMap(p)
  \/ LP_Lookup(p)
  \/ LP_LockStatus(p)
  \/ LP_GetStatus(p)
  \/ LP_LockPath(p)
  \/ LP_GetPath(p)
  \/ LP_LockError(p)
  \/ LP_GetError(p)
  \/ LP_LockResult(p)
  \/ LP_GetResult(p)
  \/ LP_Return(p)

LockNext ==
  \/ LockCallerStep
  \/ \E j \in LockJobs : LockWorkerStep(j)
  \/ \E p \in LockPollers : LockPollerStep(p)

LockSpec == Init /\ [][LockNext]_vars

\* ------------------------------------------------------------------------
\* Properties
\* ------------------------------------------------------------------------
\* the polls that are returning a snapshot
Returning == {p \in Pollers : poller[p].pc = "ret" /\ poller[p].ret = "ok"}

\* C1: the ids fetch_add hands out are 1, 2, 3, ... in allocation order,
\* so pairwise distinct and strictly increasing; the ids start_scan returns
\* are among them, and no id is returned twice, whatever the interleaving
\* of the start_scan calls.
C1_ScanIdsDistinctIncreasing ==
  /\ \A i \in 1..Len(allocated) : allocated[i] = FirstScanId + i - 1
  /\ \A i, k \in 1..Len(returned) : i # k => returned[i] # returned[k]
  /\ Range(returned) \subseteq Range(allocated)
  /\ \A c \in Callers :
       caller[c].pc = "ret" /\ caller[c].ret = "ok"
         => caller[c].scan_id \in Range(allocated) \ Range(returned)

\* two overlapping start_scan calls: the id taken second is returned first
C1_Witness == returned = <<2, 1>>

\* C2: a snapshot poll_scan returns with status "done" carries a result,
\* and one with status "scanning" carries none, however the poll
\* interleaves with the scan thread.
C2_SnapshotResultMatchesStatus ==
  \A p \in Returning :
    /\ poller[p].snap.status = "done" => poller[p].snap.result # None
    /\ poller[p].snap.status = "scanning" => poller[p].snap.result = None

\* a poll returns "done" with the result of a scan that listed a file
C2_Witness ==
  \E p \in Returning :
    /\ poller[p].snap.status = "done"
    /\ poller[p].snap.result # None
    /\ Len(poller[p].snap.result[1].files) >= 1

\* C3 as stated: in every state the stored result of a job is populated if
\* and only if its stored status is "done".
C3_ResultIffDone ==
  \A j \in DOMAIN scans : (scans[j].result # None) <=> (scans[j].status = "done")

\* C3 as amended: a stored status "done" implies a stored result; a result
\* is stored under status "scanning" only while the scan thread is between
\* its store of the result and its store of the status.
C3_DoneImpliesResult ==
  \A j \in DOMAIN scans :
    /\ scans[j].status = "done" => scans[j].result # None
    /\ scans[j].result # None /\ scans[j].status # "done"
         => j \in DOMAIN worker /\ worker[j].pc = "done_status"

\* a finished job: status "done", result stored, thread ended
C3_Witness ==
  \E j \in DOMAIN worker :
    /\ worker[j].pc = "exit"
    /\ scans[j].status = "done"
    /\ scans[j].result # None

\* C4: in every state of every job found_blends <= scanned_entries.
C4_FoundLeScanned ==
  \A j \in DOMAIN scans : scans[j].found_blends <= scans[j].scanned_entries

\* a job that has counted a match
C4_Witness ==
  \E j \in DOMAIN scans : scans[j].found_blends >= 1

\* C5: every snapshot poll_scan returns has found_blends <= scanned_entries.
C5_SnapshotFoundLeScanned ==
  \A p \in Returning :
    poller[p].snap.found_blends <= poller[p].snap.scanned_entries

\* C6: every job whose scan thread is scheduled fairly eventually has
\* status "done".  The walk is finite, so the thread fails to get there
\* exactly when it stops before it has stored the status: in every state
\* the scan thread of a job has a step to take, or the status of the job is
\* "done".
C6_ThreadRunsUntilDone ==
  \A j \in DOMAIN worker : scans[j].status = "done" \/ ENABLED WorkerStep(j)

\* C7 as stated: poll_scan fails with "Scan id not found" exactly when the
\* id had never been handed out by the id counter when the poll looked it up.
C7_NotFoundIffNeverAllocated ==
  \A p \in Pollers :
    poller[p].pc = "ret"
      => ((poller[p].ret = "Scan id not found") <=> (poller[p].cls = "never"))

\* C7 as amended: poll_scan fails with "Scan id not found" exactly when the
\* id had never been handed out, or the start_scan call that took it had not
\* reached its map.insert; every id start_scan has returned is in the
\* registry.
C7_NotFoundIffNotInserted ==
  /\ \A p \in Pollers :
       poller[p].pc = "ret"
         => ((poller[p].ret = "Scan id not found")
               <=> (poller[p].cls \in {"never", "pending"}))
  /\ Range(returned) \subseteq DOMAIN scans

\* a poll of an id whose start_scan call is between fetch_add and map.insert
C7_Witness ==
  \E p \in Pollers :
    /\ poller[p].pc = "ret"
    /\ poller[p].cls = "pending"
    /\ poller[p].ret = "Scan id not found"

\* C8: a start_scan call on a folder that does not exist returns the error
\* and changes nothing: no id is taken, the registry and the set of scan
\* threads stay as they are, in the step that fails the call and in the
\* step that returns its error.
C8_MissingRootChangesNothing ==
  [][\A c \in Callers :
       /\ caller[c].pc = "idle" /\ caller'[c].pc # "idle"
            /\ ~Exists(caller'[c].root)
            => /\ caller'[c].pc = "ret"
               /\ caller'[c].ret = "Folder does not exist"
               /\ nextScanId' = nextScanId
               /\ allocated' = allocated
               /\ scans' = scans
               /\ worker' = worker
       /\ caller[c].pc = "ret" /\ caller[c].ret = "Folder does not exist"
            /\ caller'[c] # caller[c]
            => /\ caller'[c].pc = "idle"
               /\ nextScanId' = nextScanId
               /\ returned' = returned
               /\ scans' = scans
               /\ worker' = worker]_vars

\* a call that is returning "Folder does not exist" while a scan runs
C8_Witness ==
  \E c \in Callers :
    /\ caller[c].pc = "ret"
    /\ caller[c].ret = "Folder does not exist"
    /\ \E j \in DOMAIN worker : worker[j].pc = "filter"

\* C9: a snapshot's scanned_entries and found_blends are at least those of
\* every snapshot of the same job returned before the poll began.
C9_CountersMonotone ==
  \A p \in Returning :
    /\ poller[p].snap.scanned_entries >= poller[p].floor.scanned_entries
    /\ poller[p].snap.found_blends >= poller[p].floor.found_blends

\* a later poll that returns larger counters than an earlier one, which
\* had returned counters above zero
C9_Witness ==
  \E p \in Returning :
    /\ poller[p].floor.scanned_entries >= 1
    /\ poller[p].floor.found_blends >= 1
    /\ poller[p].snap.scanned_entries > poller[p].floor.scanned_entries
    /\ poller[p].snap.found_blends > poller[p].floor.found_blends

\* C10: once a poll of a job has returned status "done", every poll of
\* the job that begins later returns status "done" with the same result and
\* the same counters; and no step of a poll changes a job.
C10_DoneSnapshotStable ==
  /\ [](\A p \in Returning :
          poller[p].floor.done # None
            => /\ poller[p].snap.status = "done"
               /\ poller[p].snap.result = poller[p].floor.done[1].result
               /\ poller[p].snap.scanned_entries
                    = poller[p].floor.done[1].scanned_entries
               /\ poller[p].snap.found_blends
                    = poller[p].floor.done[1].found_blends)
  /\ [][(\E p \in Pollers : poller'[p] # poller[p])
          => scans' = scans /\ worker' = worker /\ nextScanId' = nextScanId]_vars

\* a poll that returns "done" after an earlier poll had returned "done"
C10_Witness ==
  \E p \in Returning :
    /\ poller[p].floor.done # None
    /\ poller[p].snap.status = "done"
    /\ poller[p].snap.result # None

\* C11: the scan thread counts every item of the walk in scanned_entries,
\* the Err items too, so that a job whose status is "done" has
\* scanned_entries equal to the number of items the walk yielded.
C11_ScannedCountsEveryEntry ==
  \A j \in DOMAIN worker :
    scans[j].status = "done"
      => scans[j].scanned_entries = Len(Walk(worker[j].root))

\* the number of file nodes in a tree of TreeNode
RECURSIVE FileNodeCount(_)
RECURSIVE FileNodeSum(_)
FileNodeSum(nodes) ==
  IF nodes = <<>> THEN 0
  ELSE FileNodeCount(Head(nodes)) + FileNodeSum(Tail(nodes))
FileNodeCount(node) ==
  IF node.node_type = "file" THEN 1 ELSE FileNodeSum(node.children[1])

\* C12: every item counted in found_blends is in the flat list and in the
\* tree, once, also when its stat or its decoding fails: a job whose status
\* is "done" has as many FlatFile entries and as many file nodes in its tree
\* as found_blends says.
C12_EveryMatchListedOnce ==
  \A j \in DOMAIN scans :
    scans[j].status = "done"
      => /\ Len(scans[j].result[1].files) = scans[j].found_blends
         /\ FileNodeCount(scans[j].result[1].tree) = scans[j].found_blends

\* what the calls made say of the directory at `path`: the names of its
\* sub-directories, and the names of its files in the order of the calls
IsPrefix(p, q) == Len(p) <= Len(q) /\ SubSeq(q, 1, Len(p)) = p
SubDirNames(path) ==
  {c.parts[Len(path) + 1] :
     c \in {d \in Range(treeBuilder.calls) :
              Len(d.parts) > Len(path) /\ IsPrefix(path, d.parts)}}
InPath(path, c) == c.parts = path
FileNamesIn(path) ==
  LET sel == SelectSeq(treeBuilder.calls, LAMBDA c : InPath(path, c))
  IN  [i \in 1..Len(sel) |-> sel[i].name]

\* the children of the directory node at `path`, and of every directory node
\* below it: the sub-directories, each once, ascending by name, then the
\* files in the order of their insert_file calls
RECURSIVE ChildrenAsSpecified(_, _)
ChildrenAsSpecified(node, path) ==
  LET nd == Cardinality(SubDirNames(path))
      files == FileNamesIn(path)
  IN  /\ node.node_type = "dir"
      /\ node.children # None
      /\ Len(node.children[1]) = nd + Len(files)
      /\ \A i \in 1..nd :
           /\ node.children[1][i].node_type = "dir"
           /\ node.children[1][i].name \in SubDirNames(path)
      /\ \A i \in 1..(nd - 1) :
           LexLess(node.children[1][i].name, node.children[1][i + 1].name)
      /\ \A i \in 1..Len(files) :
           /\ node.children[1][nd + i].node_type = "file"
           /\ node.children[1][nd + i].name = files[i]
           /\ node.children[1][nd + i].path.rel = Append(path, files[i])
      /\ \A i \in 1..nd :
           ChildrenAsSpecified(node.children[1][i],
                               Append(path, node.children[1][i].name))

\* C13: after any insert_file calls and build_tree_nodes, the children of
\* every directory node are its sub-directories in ascending byte-wise
\* (case-sensitive) order of name, followed by its files in the order of
\* their insert_file calls, whatever the names of the files.
C13_DirsSortedThenFilesInOrder ==
  treeBuilder.tree # None => ChildrenAsSpecified(treeBuilder.tree[1], <<>>)

\* a tree built after a/z, a/a and B/z were inserted in that order: "B"
\* sorts before "a", and "z" stays before "a" among the files of a
C13_Witness ==
  /\ treeBuilder.tree # None
  /\ treeBuilder.calls = << [parts |-> <<N_a>>, name |-> N_z],
                            [parts |-> <<N_a>>, name |-> N_a],
                            [parts |-> <<N_B>>, name |-> N_z] >>

\* C14: in a file with a valid header, a read or a seek that fails inside
\* the block scan ends the loop there, and the BlendInfo returned has the
\* error "Header OK, but block scan failed" with version, raw, pointer_size
\* and endianness as parsed from the header.
C14_BlockScanFailureReported ==
  decoder.failed
    => /\ decoder.pc \in {"ret", "done"}
       /\ decoder.pc = "done"
            => /\ decoder.info.error
                    = Some("Header OK, but block scan failed")
               /\ decoder.info.version = decoder.header.version
               /\ decoder.info.raw = decoder.header.raw
               /\ decoder.info.pointer_size = decoder.header.pointer_size
               /\ decoder.info.endianness = decoder.header.endianness

\* C15: once a scene block has set render_engine, no later scene block
\* changes it: render_engine is the engine the first scene block that named
\* one named.
C15_FirstSceneEngineWins ==
  decoder.engines # <<>>
    => decoder.info.render_engine = Some(decoder.engines[1])

\* C16: once more than 3000 block headers have been read the block scan
\* stops, whatever the code of the block: no branch processes the payload of
\* a block after the 3000th and no further header is read.
C16_ScanStopsAboveCap ==
  decoder.searched_blocks > BlockCap
    => decoder.pc \in {"break", "ret", "done"}

\* C17: when the TEST branch has run and the loop goes on, the stream is at
\* the end of the declared length of the block if that length is at least
\* the bytes the branch read, and in no case before the bytes it read.
C17_TestBlockEndsAtDeclaredEnd ==
  decoder.pc = "header" /\ decoder.last = "test"
    => /\ decoder.size >= decoder.consumed
            => decoder.pos = decoder.payload + decoder.size
       /\ decoder.pos >= decoder.payload + decoder.consumed

\* 0 < width * height * 4 < 10 MiB, on the integers
ProductInRange(width, height) ==
  /\ (width > 0 /\ height > 0) \/ (width < 0 /\ height < 0)
  /\ ~ProdGreater(Abs(width), Abs(height), (ThumbLimit - 1) \div 4)
\* the length of the base64 text of n bytes
Base64Len(n) == 4 * ((n + 2) \div 3)

\* C18: no width and height make the decoder unwind; and a thumbnail is
\* stored only from a TEST block whose width * height * 4 is above 0 and
\* below 10 MiB, as the encoding of that many bytes, with that width and
\* height.
C18_ThumbnailOnlyInRange ==
  /\ decoder.pc # "panicked"
  /\ decoder.info.thumbnail # None
       => /\ decoder.thumb_of # None
          /\ ProductInRange(decoder.thumb_of[1][1], decoder.thumb_of[1][2])
          /\ Len(decoder.info.thumbnail[1])
               = Base64Len(decoder.thumb_of[1][1] * decoder.thumb_of[1][2] * 4)
          /\ decoder.info.thumb_width = Some(decoder.thumb_of[1][1])
          /\ decoder.info.thumb_height = Some(decoder.thumb_of[1][2])

\* C19: the status of a job is "scanning" or "done" and changes only from
\* "scanning" to "done"; the error of a job is None in every state, and so
\* are the status and the error of every snapshot poll_scan returns.
C19_StatusScanningThenDone ==
  /\ [](/\ \A j \in DOMAIN scans :
             /\ scans[j].status \in {"scanning", "done"}
             /\ scans[j].error = None
        /\ \A p \in Returning :
             /\ poller[p].snap.status \in {"scanning", "done"}
             /\ poller[p].snap.error = None)
  /\ [][\A j \in DOMAIN scans :
          scans'[j].status # scans[j].status
            => scans[j].status = "scanning" /\ scans'[j].status = "done"]_vars

\* a poll returns a snapshot of a finished job whose walk met an Err item
\* and a file whose stat failed or whose decoding succeeded
C19_Witness ==
  \E p \in Returning :
    /\ poller[p].snap.status = "done"
    /\ poller[p].snap.error = None
    /\ scans[poller[p].snap.scan_id].status = "done"
    /\ scans[poller[p].snap.scan_id].found_blends >= 1

\* the threads of LockSpec, the mutexes a thread holds, and its pc
LockThreads ==
  {CallerThread} \cup {WorkerThread(j) : j \in LockJobs}
                 \cup {PollerThread(p) : p \in LockPollers}
HeldBy(t) == {m \in Mutexes : locks.holder[m] = t}
PcOf(t) ==
  IF t[1] = "caller" THEN locks.caller.pc
  ELSE IF t[1] = "worker" THEN locks.worker[t[2]].pc
  ELSE locks.poller[t[2]].pc

\* the next step of the thread is a call that reads the file system
AtFileSystem(t) ==
  \/ t[1] = "caller" /\ PcOf(t) = "exists"
  \/ t[1] = "worker" /\ PcOf(t) \in {"walk", "is_file", "metadata", "parse"}

\* the thread has no call in progress, or has ended
Resting(t) == PcOf(t) \in {"idle", "none", "exit", "panicked"}

\* the mutex of the lock() the thread is at, None when it is at no lock()
Wanted(t) ==
  LET job == IF t[1] = "worker" THEN t[2]
             ELSE IF t[1] = "poller" THEN locks.poller[t[2]].id ELSE 0
  IN  IF PcOf(t) = "lock_map" THEN Some(ScansMutex)
      ELSE IF PcOf(t) \in {"lock_status", "lock_done"}
      THEN Some(<<"status", job>>)
      ELSE IF PcOf(t) = "lock_path" THEN Some(<<"current_path", job>>)
      ELSE IF PcOf(t) = "lock_error" THEN Some(<<"error", job>>)
      ELSE IF PcOf(t) = "lock_result" THEN Some(<<"result", job>>)
      ELSE None

\* the thread can take a step
CanStep(t) ==
  \/ t[1] = "caller" /\ ENABLED LockCallerStep
  \/ t[1] = "worker" /\ ENABLED LockWorkerStep(t[2])
  \/ t[1] = "poller" /\ ENABLED LockPollerStep(t[2])

\* the thread can take a step, and that step unlocks m
FreesAtOnce(t, m) ==
  \/ t[1] = "caller" /\ ENABLED (LockCallerStep /\ locks'.holder[m] = Free)
  \/ t[1] = "worker"
       /\ ENABLED (LockWorkerStep(t[2]) /\ locks'.holder[m] = Free)
  \/ t[1] = "poller"
       /\ ENABLED (LockPollerStep(t[2]) /\ locks'.holder[m] = Free)

\* C20: no thread holds a mutex when it calls the file system, and no
\* thread holds two mutexes.  So no thread is ever stuck: a thread inside a
\* call can take a step, unless it is at a lock() whose mutex is held, and
\* then the holder's next step, which it can take at once, unlocks the
\* mutex; a poll_scan call so never waits for a scan to end.
C20_LocksShortAndSingle ==
  \A t \in LockThreads :
    /\ AtFileSystem(t) => HeldBy(t) = {}
    /\ Cardinality(HeldBy(t)) <= 1
    /\ ~Resting(t)
         => IF Wanted(t) # None /\ locks.holder[Wanted(t)[1]] # Free
            THEN FreesAtOnce(locks.holder[Wanted(t)[1]], Wanted(t)[1])
            ELSE CanStep(t)

\* a poll waits at the lock() of the status of job 1, which the scan thread
\* of job 1 holds to store "done", while the scan thread of job 2 is
\* decoding a file
C20_Witness ==
  \E p \in LockPollers :
    /\ locks.poller[p].pc = "lock_status"
    /\ locks.poller[p].id = 1
    /\ locks.holder[<<"status", 1>>] = WorkerThread(1)
    /\ locks.worker[1].pc = "set_done"
    /\ locks.worker[2].pc = "parse"

====
